---- MODULE Spec2Model ----
(***************************************************************************)
(* WaveAI: the agent response pipeline of app.py (chat endpoint,           *)
(* AIAgent.generate_response, AIAgent._fallback_response,                  *)
(* APIManager.get_api_key) and the tool functions of tools.py it calls.    *)
(*                                                                         *)
(* Python strings are modelled as sequences of tokens: "" is <<>>, a       *)
(* concatenation or an f-string is \o, truthiness is # <<>>.  A value that *)
(* may be None is a record [has, v].                                       *)
(***************************************************************************)
EXTENDS Integers, Sequences, FiniteSets, TLC

\* ------------------------------------------------------------------ bounds
\* longest history a request body carries
MaxHistory == 2

\* rows of the worker's table
MaxTasks == 2

\* worker passes of one behaviour
MaxPasses == 2

\* the latest time of a behaviour of the worker
MaxTime == 10

\* ------------------------------------------------- time and surroundings
\* Times are minutes since 2026-01-01 00:00.
MINUTES_PER_DAY == 1440

\* timedelta(minutes=5) of tools.py line 132
GRACE_MINUTES == 5

VARIABLES
    now,                    \* datetime.now()
    TOOLS_AVAILABLE,        \* whether app.py's import of tools succeeded
    scheduled_tasks         \* rows of the PostgreSQL scheduled_tasks table

\* ------------------------------------------------------- strings and None
None == [has |-> FALSE, v |-> <<>>]

Some(s) == [has |-> TRUE, v |-> s]

SP == " "

RECURSIVE lstrip(_)
lstrip(s) == IF s # <<>> /\ Head(s) = SP THEN lstrip(Tail(s)) ELSE s

RECURSIVE rstrip(_)
rstrip(s) ==
    IF s # <<>> /\ s[Len(s)] = SP THEN rstrip(SubSeq(s, 1, Len(s) - 1)) ELSE s

\* str.strip()
strip(s) == rstrip(lstrip(s))

\* t in s, for Python strings
Contains(s, t) ==
    \E i \in 0..(Len(s) - Len(t)) : SubSeq(s, i + 1, i + Len(t)) = t

\* str.lower() on the agent identifiers a request may carry
lower(a) ==
    CASE a = "Alex" -> "alex"
      [] a = "KAI" -> "kai"
      [] OTHER -> a

\* ------------------------------------------------------------ app.py data
\* the agents dictionary: key -> AIAgent.name
AgentKeys == {"alex", "lina", "marco", "sofia", "kai"}

agents(k) ==
    CASE k = "alex" -> "Alex"
      [] k = "lina" -> "Lina"
      [] k = "marco" -> "Marco"
      [] k = "sofia" -> "Sofia"
      [] OTHER -> "Kai"

\* self.name.lower()
name_lower(n) ==
    CASE n = "Alex" -> "alex"
      [] n = "Lina" -> "lina"
      [] n = "Marco" -> "marco"
      [] n = "Sofia" -> "sofia"
      [] OTHER -> "kai"

\* fallback_responses.get(self.name.lower(), fallback_responses['kai'])
fallback_responses(n) ==
    IF name_lower(n) \in AgentKeys THEN <<"canned", name_lower(n)>>
    ELSE <<"canned", "kai">>

PROVIDER_GEMINI == "Google Gemini (flash)"

PROVIDER_DEMO == "Mode Démo (Gemini non configuré)"

NOT_CONFIGURED == <<"Clé API Gemini non configurée.">>

BLOCKED_MSG ==
    <<"Réponse Gemini bloquée ou vide. Réessayez avec une autre formulation.">>

\* ---------------------------------------------------------- tools.py data
\* the names get_tool_specs() declares, which are the keys of the registry of
\* tools.py
get_tool_specs == {"schedule_email_alert", "find_linkedin_contact"}

\* app.py's AVAILABLE_TOOLS: the registry of tools.py, or {} when the import
\* failed
AVAILABLE_TOOLS == IF TOOLS_AVAILABLE THEN get_tool_specs ELSE {}

\* payload["tools"] of line 337
payload_tools == IF TOOLS_AVAILABLE THEN get_tool_specs ELSE {}

\* The tools the source designates for an agent: the planning instructions of
\* schedule_email_alert are added for Alex only, and find_linkedin_contact is
\* declared as Lina's tool.  AIAgent itself holds a name, a role and a
\* personality.
capabilities(n) ==
    CASE name_lower(n) = "alex" -> {"schedule_email_alert"}
      [] name_lower(n) = "lina" -> {"find_linkedin_contact"}
      [] OTHER -> {}

\* the parameters of each tool function, and those without a default
Params(f) ==
    IF f = "schedule_email_alert"
    THEN {"recipient_email", "subject", "body", "scheduled_date_str"}
    ELSE {"name", "role"}

Required(f) ==
    IF f = "schedule_email_alert"
    THEN {"recipient_email", "subject", "body", "scheduled_date_str"}
    ELSE {"name"}

\* a dict of arguments is a set of <<key, value>> pairs with distinct keys
Keys(args) == {p[1] : p \in args}

Get(args, k) == (CHOOSE p \in args : p[1] = k)[2]

\* tool_function(**args) binds: no missing and no unexpected keyword
Binds(f, args) == Required(f) \subseteq Keys(args) /\ Keys(args) \subseteq Params(f)

\* the strings a call may give as scheduled_date_str
DateStrings ==
    { "2030-01-01 10:00", "2020-01-01 10:00", "demain", "2026-01-01 00:04",
      "2026-01-01 00:05", "2026-01-01 00:06", "2026-01-03 00:00",
      "2026-01-01T00:06", "2026-1-1 0:6" }

\* those on which datetime.strptime(s, '%Y-%m-%d %H:%M') raises ValueError:
\* no date at all, a "T" where the format has a space.  The directives take
\* one or two digits, so "2026-1-1 0:6" is accepted.
ValueErrorStrings == {"demain", "2026-01-01T00:06"}

strptime_ok(s) == s \in DateStrings \ ValueErrorStrings

\* the datetime strptime returns, in minutes
strptime(s) ==
    CASE s = "2026-01-01 00:04" -> 4
      [] s = "2026-01-01 00:05" -> 5
      [] s = "2026-01-01 00:06" -> 6
      [] s = "2026-1-1 0:6" -> 6
      [] s = "2026-01-03 00:00" -> 2 * MINUTES_PER_DAY
      [] s = "2030-01-01 10:00" -> 1461 * MINUTES_PER_DAY + 600
      [] OTHER -> 600 - 2192 * MINUTES_PER_DAY

\* what a tool function call produces: whether it raised, the string it
\* returned (or str of the exception), whether an e-mail was sent and whether
\* a row was inserted into scheduled_tasks
GmailStates == {"ok", "no_token", "http_error", "error"}

\* what a call of the tool finds around it: gmail is what a Gmail send meets
\* (lines 174-201), database_ok whether get_db_connection and the INSERT work
Surroundings ==
    {[gmail |-> g, database_ok |-> TRUE] : g \in GmailStates}
        \cup {[gmail |-> "ok", database_ok |-> FALSE]}

NoSurroundings == [gmail |-> "none", database_ok |-> FALSE]

\* path is the branch schedule_email_alert took ("format", "error", "sync",
\* "deferred"; "none" for the other functions) and attempts the number of
\* calls of send_email_immediate
Outcome(raised, result, sent, inserted) ==
    [called |-> TRUE, raised |-> raised, result |-> result,
     sent |-> sent, inserted |-> inserted, path |-> "none", attempts |-> 0,
     env |-> NoSurroundings]

NoOutcome ==
    [called |-> FALSE, raised |-> FALSE, result |-> <<>>,
     sent |-> FALSE, inserted |-> FALSE, path |-> "none", attempts |-> 0,
     env |-> NoSurroundings]

Via(path, attempts, out) == [out EXCEPT !.path = path, !.attempts = attempts]

DATE_FORMAT_ERROR(d) ==
    <<"Erreur: Le format de la date doit être 'YYYY-MM-DD HH:MM'. Vous avez fourni : ", d>>

DB_ERROR ==
    <<"Erreur interne: Impossible d'enregistrer la tâche dans la base de données. Veuillez vérifier la connexion DB.">>

SENT_OK == <<"L'e-mail a été envoyé avec succès immédiatement.">>

NO_TOKEN == <<"Échec de l'envoi: Les jetons d'authentification Gmail sont invalides ou manquants.">>

GMAIL_HTTP_ERROR == <<"Échec de l'envoi: Erreur de l'API Gmail">>

GMAIL_ERROR == <<"Échec de l'envoi: Erreur inattendue">>

SCHEDULED_OK(d, task_id) ==
    <<"L'e-mail a été planifié avec succès pour le ", d,
      " (UTC). Identifiant de la tâche : ", ToString(task_id)>>

\* send_email_immediate (lines 162-201): every failure is a returned string
send_email_immediate(env) ==
    Via("sync", 1,
        CASE env.gmail = "no_token" -> Outcome(FALSE, NO_TOKEN, FALSE, FALSE)
          [] env.gmail = "http_error" -> Outcome(FALSE, GMAIL_HTTP_ERROR, FALSE, FALSE)
          [] env.gmail = "error" -> Outcome(FALSE, GMAIL_ERROR, FALSE, FALSE)
          [] OTHER -> Outcome(FALSE, SENT_OK, TRUE, FALSE))

\* line 132 evaluates timezone.timedelta; datetime.timezone, imported at line
\* 12, has no attribute timedelta, so the expression raises AttributeError
timezone_timedelta_raises == TRUE

\* the row of lines 140-147, with the id the SERIAL column gives it
new_task(task_id, args) ==
    [id |-> task_id, task_type |-> "email",
     recipient |-> Get(args, "recipient_email"), subject |-> Get(args, "subject"),
     body |-> Get(args, "body"),
     scheduled_date |-> strptime(Get(args, "scheduled_date_str")),
     status |-> "pending"]

\* mutant of schedule_email_alert: a ValueError of strptime is handled like
\* any other exception, at line 157
schedule_email_alert_one_handler(args, env) ==
    LET d == Get(args, "scheduled_date_str")
    IN  Via("error", 0, Outcome(FALSE, DB_ERROR, FALSE, FALSE))

\* mutant of schedule_email_alert: the handler of line 157 answers with the
\* confirmation of line 152
schedule_email_alert_confirms(args, env) ==
    LET d == Get(args, "scheduled_date_str")
    IN  IF ~strptime_ok(d)
        THEN Via("format", 0, Outcome(FALSE, DATE_FORMAT_ERROR(d), FALSE, FALSE))
        ELSE Via("error", 0,
                 Outcome(FALSE, SCHEDULED_OK(d, Len(scheduled_tasks) + 1), FALSE, FALSE))

\* schedule_email_alert(**args): strptime raises ValueError on a string that
\* does not match the format (line 128, handled at 154).  On a well-formed
\* string line 132 raises AttributeError, handled at line 157, so neither
\* send_email_immediate (133) nor the INSERT (136-152) is reached.
schedule_email_alert(args, env) ==
    LET d == Get(args, "scheduled_date_str")
    IN  IF ~strptime_ok(d)
        THEN Via("format", 0, Outcome(FALSE, DATE_FORMAT_ERROR(d), FALSE, FALSE))
        ELSE IF timezone_timedelta_raises
        THEN Via("error", 0, Outcome(FALSE, DB_ERROR, FALSE, FALSE))
        ELSE IF strptime(d) < now + GRACE_MINUTES
        THEN send_email_immediate(env)
        ELSE IF ~env.database_ok
        THEN Via("deferred", 0, Outcome(FALSE, DB_ERROR, FALSE, FALSE))
        ELSE Via("deferred", 0,
                 Outcome(FALSE, SCHEDULED_OK(d, Len(scheduled_tasks) + 1), FALSE, TRUE))

\* AVAILABLE_TOOLS["find_linkedin_contact"]: lambda name, role=""
find_linkedin_contact(args) ==
    Outcome(FALSE,
            <<"Recherche LinkedIn pour ", Get(args, "name"), " (",
              IF "role" \in Keys(args) THEN Get(args, "role") ELSE "",
              ") en cours...">>,
            FALSE, FALSE)

TYPE_ERROR == <<"TypeError: unexpected or missing keyword argument">>

\* mutant of tool_function: the TypeError is returned as the tool's result
tool_function_swallow(f, args, env) ==
    IF ~Binds(f, args) THEN Outcome(FALSE, TYPE_ERROR, FALSE, FALSE)
    ELSE IF f = "schedule_email_alert" THEN schedule_email_alert(args, env)
    ELSE find_linkedin_contact(args)

\* tool_function(**args) for a name of AVAILABLE_TOOLS: binding the keywords
\* raises TypeError before the body runs
tool_function(f, args, env) ==
    IF ~Binds(f, args) THEN Outcome(TRUE, TYPE_ERROR, FALSE, FALSE)
    ELSE IF f = "schedule_email_alert" THEN schedule_email_alert(args, env)
    ELSE find_linkedin_contact(args)

\* ------------------------------------------------- conversation and turns
Part(type, text, name, args, result) ==
    [type |-> type, text |-> text, name |-> name, args |-> args, result |-> result]

TextPart(t) == Part("text", t, "", {}, <<>>)

\* system_instruction (lines 295-315): the planning instructions and the
\* current UTC time are added for Alex only
system_instruction(n) ==
    IF name_lower(n) = "alex" THEN <<"Tu es ", n, "planification", "utcnow">>
    ELSE <<"Tu es ", n>>

\* an entry of the history a request carries: a dict with 'role' and 'parts'
\* (kind "turn"), a dict without them (kind "dict"), or a JSON scalar, on
\* which 'role' in entry raises TypeError (kind "scalar")
Entry(kind, role, parts) == [kind |-> kind, role |-> role, parts |-> parts]

\* a turn of the conversation: {"role": ..., "parts": [...]}
Turn(role, parts) == Entry("turn", role, parts)

HistoryEntries ==
    { Entry("turn", "user", <<TextPart(<<"q">>)>>),
      Entry("turn", "model", <<TextPart(<<"a">>)>>),
      Entry("dict", "", <<>>),
      Entry("scalar", "", <<>>) }

RECURSIVE SeqsUpTo(_, _)
SeqsUpTo(S, n) ==
    IF n = 0 THEN {<<>>}
    ELSE LET shorter == SeqsUpTo(S, n - 1)
         IN  shorter \cup {Append(h, e) : h \in shorter, e \in S}

\* lines 323-326: the accepted entries of history, in order
RECURSIVE accepted(_)
accepted(h) ==
    IF h = <<>> THEN <<>>
    ELSE IF Head(h).kind = "turn"
         THEN <<Head(h)>> \o accepted(Tail(h))
         ELSE accepted(Tail(h))

\* mutant of initial_conversation: the current message is put before the
\* caller's turns
initial_conversation_message_first(n, message, h) ==
    <<Turn("user", <<TextPart(system_instruction(n))>>)>>
        \o <<Turn("user", <<TextPart(message)>>)>>
        \o accepted(h)

\* lines 320-329
initial_conversation(n, message, h) ==
    <<Turn("user", <<TextPart(system_instruction(n))>>)>>
        \o accepted(h)
        \o <<Turn("user", <<TextPart(message)>>)>>

\* ------------------------------------------------------------- responses
Response(agent, response, provider, success, updated_history) ==
    [agent |-> agent, response |-> response, provider |-> provider,
     success |-> success, updated_history |-> updated_history]

\* mutant of fallback_response: the canned reply is marked as a success
fallback_response_success(n, error_msg) ==
    LET reason == IF error_msg.has /\ error_msg.v # <<>>
                  THEN <<"Erreur API: ">> \o error_msg.v
                  ELSE NOT_CONFIGURED
    IN  Response(n, fallback_responses(n) \o <<" (">> \o reason \o <<")">>,
                 PROVIDER_DEMO, TRUE, <<>>)

\* AIAgent._fallback_response
fallback_response(n, error_msg) ==
    LET reason == IF error_msg.has /\ error_msg.v # <<>>
                  THEN <<"Erreur API: ">> \o error_msg.v
                  ELSE NOT_CONFIGURED
    IN  Response(n, fallback_responses(n) \o <<" (">> \o reason \o <<")">>,
                 PROVIDER_DEMO, FALSE, <<>>)

\* mutant of success_response: the model's reply is appended to the history
\* that is returned
success_response_with_reply(n, generated_text, conversation) ==
    Response(n, strip(generated_text), PROVIDER_GEMINI, TRUE,
             Append(conversation, Turn("model", <<TextPart(strip(generated_text))>>)))

\* mutant of success_response: the text is returned without .strip()
success_response_raw(n, generated_text, conversation) ==
    Response(n, generated_text, PROVIDER_GEMINI, TRUE, conversation)

\* the success dictionaries of lines 394-401 and 419-426
success_response(n, generated_text, conversation) ==
    Response(n, strip(generated_text), PROVIDER_GEMINI, TRUE, conversation)

\* --------------------------------------------- the completion provider
\* What requests.post(url, json=payload, timeout=30) produces: it raises
\* (timeout, connection error) or returns a response with a status code and
\* a body that response.json() parses or not.  Of the parsed body the code
\* reads error.message, candidates[0].functionCall, candidates[0].content
\* .parts[0].text and promptFeedback.blockReason.
Reply(raises, exc, status, json_ok, error_message, candidates, blockReason) ==
    [raises |-> raises, exc |-> exc, status |-> status, json_ok |-> json_ok,
     error_message |-> error_message, candidates |-> candidates,
     blockReason |-> blockReason]

NoReply == Reply(FALSE, <<>>, "", FALSE, None, <<>>, None)

FunctionCall(has_name, name, has_args, args) ==
    [has |-> TRUE, has_name |-> has_name, name |-> name,
     has_args |-> has_args, args |-> args]

NoFunctionCall ==
    [has |-> FALSE, has_name |-> FALSE, name |-> "", has_args |-> FALSE, args |-> {}]

\* candidates[0]: parts is content.parts ([] when content or parts is absent)
Candidate(functionCall, parts) == [functionCall |-> functionCall, parts |-> parts]

Ok200(candidates, blockReason) ==
    Reply(FALSE, <<>>, "200", TRUE, None, candidates, blockReason)

HttpError(status, json_ok, error_message) ==
    Reply(FALSE, <<>>, status, json_ok, error_message, <<>>, None)

EmailArgs(d) ==
    { <<"recipient_email", "bob@example.com">>, <<"subject", "hi">>,
      <<"body", "hello Bob">>, <<"scheduled_date_str", d>> }

ToolCallReply(name, args) ==
    Ok200(<<Candidate(FunctionCall(TRUE, name, TRUE, args), <<>>)>>, None)

TextReply(t) == Ok200(<<Candidate(NoFunctionCall, <<[text |-> Some(t)]>>)>>, None)

\* the replies the model draws from, for either round
Replies ==
    { Reply(TRUE, <<"Read timed out.">>, "", FALSE, None, <<>>, None),
      Reply(TRUE, <<>>, "", FALSE, None, <<>>, None),
      HttpError("429", TRUE, Some(<<"Resource exhausted">>)),
      HttpError("429", TRUE, Some(<<>>)),
      HttpError("429", TRUE, None),
      HttpError("500", FALSE, None),
      Reply(FALSE, <<>>, "200", FALSE, None, <<>>, None),
      TextReply(<<SP, "bonjour", SP>>),
      TextReply(<<SP>>),
      TextReply(<<>>),
      Ok200(<<>>, None),
      Ok200(<<>>, Some(<<"SAFETY">>)),
      Ok200(<<Candidate(NoFunctionCall, <<[text |-> None]>>)>>, None),
      ToolCallReply("schedule_email_alert", EmailArgs("2030-01-01 10:00")),
      ToolCallReply("schedule_email_alert", EmailArgs("demain")),
      ToolCallReply("schedule_email_alert", EmailArgs("2026-01-01T00:06")),
      ToolCallReply("schedule_email_alert", EmailArgs("2026-01-01 00:04")),
      ToolCallReply("schedule_email_alert", EmailArgs("2026-01-01 00:05")),
      ToolCallReply("schedule_email_alert", EmailArgs("2026-01-01 00:06")),
      ToolCallReply("schedule_email_alert", EmailArgs("2026-01-03 00:00")),
      ToolCallReply("schedule_email_alert", {<<"recipient_email", "bob@example.com">>}),
      ToolCallReply("find_linkedin_contact", {<<"name", "Bob">>}),
      ToolCallReply("send_sms", {<<"to", "Bob">>}),
      Ok200(<<Candidate(FunctionCall(TRUE, "find_linkedin_contact", TRUE,
                                     {<<"name", "Bob">>}),
                        <<[text |-> Some(<<"je cherche">>)]>>)>>, None),
      Ok200(<<Candidate(FunctionCall(TRUE, "send_sms", TRUE, {<<"to", "Bob">>}),
                        <<[text |-> Some(<<"j'envoie">>)]>>)>>, None),
      Ok200(<<Candidate(FunctionCall(TRUE, "schedule_email_alert", TRUE,
                                     {<<"recipient_email", "bob@example.com">>}),
                        <<[text |-> Some(<<"je planifie">>)]>>)>>, None),
      Ok200(<<Candidate(FunctionCall(FALSE, "", TRUE, {}), <<>>)>>, None),
      Ok200(<<Candidate(FunctionCall(TRUE, "find_linkedin_contact", FALSE, {}),
                        <<>>)>>, None) }

JSON_ERROR == <<"Expecting value: line 1 column 1 (char 0)">>

\* candidate = result['candidates'][0] if ... else None (lines 353, 388)
has_candidate(reply) == reply.candidates # <<>>

\* the text of lines 391-393 and 416-418: parts[0].get('text') when the
\* candidate has content parts, None otherwise
generated_text(reply) ==
    IF has_candidate(reply) /\ reply.candidates[1].parts # <<>>
    THEN reply.candidates[1].parts[1].text
    ELSE None

\* if generated_text:
is_text(reply) == generated_text(reply).has /\ generated_text(reply).v # <<>>

\* if candidate and 'functionCall' in candidate: (line 356)
is_tool_call(reply) == has_candidate(reply) /\ reply.candidates[1].functionCall.has

\* ------------------------------------------------------- request bodies
\* a field of the JSON body: absent, a string, or another JSON value
Absent == [kind |-> "absent", v |-> <<>>]

Str(t) == [kind |-> "str", v |-> t]

Other == [kind |-> "other", v |-> <<>>]

\* the 'agent' field, whose strings the model keeps whole
AgentField(kind, a) == [kind |-> kind, a |-> a]

\* the 'history' field: a list of entries, or a value that is not iterable
History(list, entries) == [list |-> list, entries |-> entries]

Body(object, message, agent, history) ==
    [object |-> object, message |-> message, agent |-> agent, history |-> history]

Messages == {Absent, Other, Str(<<SP>>), Str(<<SP, "hello">>)}

AgentFields ==
    { AgentField("absent", ""), AgentField("other", ""), AgentField("str", "Alex"),
      AgentField("str", "KAI"), AgentField("str", "lina"), AgentField("str", "bob") }

Histories ==
    {History(FALSE, <<>>)} \cup {History(TRUE, h) : h \in SeqsUpTo(HistoryEntries, MaxHistory)}

\* request.get_json() gives a dict, or it raises or gives a value without
\* .get (no JSON body, null, a list)
Bodies ==
    {Body(FALSE, Absent, AgentField("absent", ""), History(TRUE, <<>>))}
        \cup {Body(TRUE, m, a, h) : m \in Messages, a \in AgentFields, h \in Histories}

\* ------------------------------------------------------------------ state
VARIABLES
    env_key,                \* os.getenv('GEMINI_API_KEY')
    db_state,               \* the api_keys row of provider gemini
    emails_sent,            \* messages the Gmail API accepted
    pc,                     \* position of the request being served
    agent_name,             \* chat()'s agent_name as line 583 binds it
    self_name,              \* the answering agent (self.name)
    message,                \* generate_response's message
    history,                \* generate_response's history
    conversation_history,
    function_call,          \* candidate['functionCall'] of round 1
    posted,                 \* payload["contents"] of each requests.post
    trace,                  \* the upstream calls and tool calls, in order
    first_reply,            \* what the first requests.post produced
    second_reply,           \* what the second requests.post produced
    tool_outcome,           \* what tool_function(**args) produced
    gen_result,             \* what generate_response returned, or raised
    chat_response,          \* what chat() returned to the client
    waveai_db,              \* rows of scheduled_tasks in the worker's waveai.db
    wpc,                    \* position of each worker process
    wtasks,                 \* each worker's tasks (line 30) still to be handled
    passes,                 \* calls of process_scheduled_tasks so far
    wsent,                  \* per task, the messages the worker's Gmail send accepted
    last,                   \* the last iteration of the loop of line 43
    cycle,                  \* what get_gmail_service() gave the last pass (line 37)
    threads,                \* the locals of requests served at the same time
    default_history         \* the list object of the default history=[] (line 287)

worker == <<waveai_db, wpc, wtasks, passes, wsent, last, cycle>>

flask == <<threads, default_history>>

store ==
    <<env_key, db_state, emails_sent, scheduled_tasks, now, TOOLS_AVAILABLE>>

request == <<agent_name, self_name, message, history, conversation_history>>

rounds == <<function_call, posted, trace, first_reply, second_reply, tool_outcome>>

web == <<pc, request, rounds, gen_result, chat_response>>

vars == <<store, web, worker, flask>>

\* mutant of get_api_key: the persisted record is looked up first
get_api_key_db_first ==
    IF db_state.state = "row" THEN Some(db_state.api_key)
    ELSE IF env_key.has /\ env_key.v # <<>> THEN env_key
    ELSE None

\* APIManager.get_api_key('gemini')
get_api_key ==
    IF env_key.has /\ env_key.v # <<>> THEN env_key
    ELSE IF db_state.state = "row" THEN Some(db_state.api_key)
    ELSE None

EnvKeys == {None, Some(<<>>), Some(<<"env-key">>)}

DbStates ==
    { [state |-> "error", api_key |-> <<>>], [state |-> "norow", api_key |-> <<>>],
      [state |-> "row", api_key |-> <<>>], [state |-> "row", api_key |-> <<"db-key">>] }

\* mutant of not_api_key: if api_key is None
api_key_is_none(api_key) == ~api_key.has

\* if not api_key: (line 291)
not_api_key(api_key) == ~(api_key.has /\ api_key.v # <<>>)

NoResult == [status |-> "none", value |-> Response("", <<>>, "", FALSE, <<>>)]

\* chat()'s jsonify of lines 598-605, 588 and 609-613; status "unhandled" is
\* an exception leaving chat()
ChatResponse(status, success, r, msg, hist) ==
    [status |-> status, success |-> success, agent |-> r.agent,
     response |-> r.response, provider |-> r.provider, api_working |-> r.success,
     message |-> msg, history |-> hist]

NoChatResponse == ChatResponse("none", FALSE, NoResult.value, <<>>, History(TRUE, <<>>))

Workers == {1, 2}

NoIteration ==
    [pass |-> 0, task |-> 0, send |-> "none", write |-> "none", columns |-> {}]

\* line 37 was not reached
NoCycle == "not_asked"

\* no worker process has run
WorkerIdle ==
    /\ wpc = [w \in Workers |-> "idle"]
    /\ wtasks = [w \in Workers |-> <<>>]
    /\ passes = 0
    /\ wsent = [t \in DOMAIN waveai_db |-> 0]
    /\ last = NoIteration
    /\ cycle = NoCycle

RequestIds == {1, 2}

NoThread ==
    [pc |-> "idle", n |-> "", message |-> <<>>, passed |-> FALSE, history |-> <<>>,
     conversation_history |-> <<>>, function_call |-> NoFunctionCall,
     function_result |-> <<>>, posted |-> <<>>]

\* no request is being served
WebIdle ==
    /\ threads = [r \in RequestIds |-> NoThread]
    /\ default_history = <<>>
    /\ emails_sent = 0
    /\ scheduled_tasks = <<>>
    /\ pc = "idle"
    /\ agent_name = ""
    /\ self_name = ""
    /\ message = <<>>
    /\ history = History(TRUE, <<>>)
    /\ conversation_history = <<>>
    /\ function_call = NoFunctionCall
    /\ posted = <<>>
    /\ trace = <<>>
    /\ first_reply = NoReply
    /\ second_reply = NoReply
    /\ tool_outcome = NoOutcome
    /\ gen_result = NoResult
    /\ chat_response = NoChatResponse

Init ==
    /\ now = 0
    /\ TOOLS_AVAILABLE \in BOOLEAN
    /\ env_key \in EnvKeys
    /\ db_state \in DbStates
    /\ waveai_db = <<>>
    /\ WorkerIdle
    /\ WebIdle

\* generate_response returns r and chat() wraps it (lines 595-605)
Returns(r) ==
    /\ gen_result' = [status |-> "returned", value |-> r]
    /\ chat_response' = ChatResponse("json", TRUE, r, <<>>, History(TRUE, r.updated_history))
    /\ pc' = "done"

\* generate_response raises and chat() handles it at lines 607-613
Raises(msg, hist) ==
    /\ gen_result' = [status |-> "raised", value |-> NoResult.value]
    /\ chat_response' =
           ChatResponse("json", FALSE, NoResult.value,
                        <<"Erreur lors du traitement: ">> \o msg, hist)
    /\ pc' = "done"

\* an exception inside chat() before history is bound (line 585): the handler
\* reads history at line 612, UnboundLocalError leaves chat()
Unhandled ==
    /\ chat_response' = ChatResponse("unhandled", FALSE, NoResult.value, <<>>, History(TRUE, <<>>))
    /\ pc' = "done"
    /\ UNCHANGED <<request, gen_result>>

\* for entry in history: 'role' in entry (lines 323-325) raises TypeError
history_raises(h) == ~h.list \/ \E i \in 1..Len(h.entries) : h.entries[i].kind = "scalar"

\* mutant of chat: an identifier that is not a key of agents is answered by
\* the first agent of the dictionary
chat_first_agent(body) ==
    /\ pc = "idle"
    /\ UNCHANGED <<worker, flask, store, rounds>>
    /\ IF ~body.object \/ body.message.kind = "other" \/ body.agent.kind = "other"
       THEN Unhandled
       ELSE LET msg == strip(body.message.v)
                named == IF body.agent.kind = "absent" THEN "kai"
                         ELSE lower(body.agent.a)
                key == IF named \in AgentKeys THEN named ELSE "alex"
                n == agents(key)
                api_key == get_api_key
            IN  IF msg = <<>>
                THEN /\ chat_response' =
                            ChatResponse("json", FALSE, NoResult.value,
                                         <<"Message vide">>, History(TRUE, <<>>))
                     /\ pc' = "done"
                     /\ agent_name' = named
                     /\ UNCHANGED <<self_name, message, history, conversation_history,
                                    gen_result>>
                ELSE /\ agent_name' = named
                     /\ self_name' = n
                     /\ message' = msg
                     /\ history' = body.history
                     /\ IF not_api_key(api_key)
                        THEN /\ Returns(fallback_response(n, None))
                             /\ UNCHANGED conversation_history
                        ELSE IF history_raises(body.history)
                        THEN /\ Raises(<<"TypeError">>, body.history)
                             /\ UNCHANGED conversation_history
                        ELSE /\ conversation_history' =
                                    initial_conversation(n, msg, body.history.entries)
                             /\ pc' = "post1"
                             /\ UNCHANGED <<gen_result, chat_response>>

\* chat(), up to the first requests.post of generate_response
chat(body) ==
    /\ pc = "idle"
    /\ UNCHANGED <<worker, flask, store, rounds>>
    /\ IF ~body.object \/ body.message.kind = "other" \/ body.agent.kind = "other"
       THEN Unhandled
       ELSE LET msg == strip(body.message.v)
                named == IF body.agent.kind = "absent" THEN "kai"
                         ELSE lower(body.agent.a)
                key == IF named \in AgentKeys THEN named ELSE "kai"
                n == agents(key)
                api_key == get_api_key
            IN  IF msg = <<>>
                THEN /\ chat_response' =
                            ChatResponse("json", FALSE, NoResult.value,
                                         <<"Message vide">>, History(TRUE, <<>>))
                     /\ pc' = "done"
                     /\ agent_name' = named
                     /\ UNCHANGED <<self_name, message, history, conversation_history,
                                    gen_result>>
                ELSE /\ agent_name' = named
                     /\ self_name' = n
                     /\ message' = msg
                     /\ history' = body.history
                     /\ IF not_api_key(api_key)
                        THEN /\ Returns(fallback_response(n, None))
                             /\ UNCHANGED conversation_history
                        ELSE IF history_raises(body.history)
                        THEN /\ Raises(<<"TypeError">>, body.history)
                             /\ UNCHANGED conversation_history
                        ELSE /\ conversation_history' =
                                    initial_conversation(n, msg, body.history.entries)
                             /\ pc' = "post1"
                             /\ UNCHANGED <<gen_result, chat_response>>

\* mutant of http_error_msg: the provider's message is not read
http_error_msg_default(reply) == <<"Erreur Gemini non détaillée: ", reply.status>>

\* error_msg of line 348
http_error_msg(reply) ==
    IF reply.error_message.has THEN reply.error_message.v
    ELSE <<"Erreur Gemini non détaillée: ", reply.status>>

\* error_msg of lines 429-434
blocked_msg(reply) ==
    IF reply.blockReason.has
    THEN BLOCKED_MSG \o <<" (Raison: ">> \o reply.blockReason.v \o <<")">>
    ELSE BLOCKED_MSG

UNKNOWN_TOOL(f) == <<"L'outil ", f, " est introuvable.">>

TOOL_ERROR(f, e) == <<"Erreur interne de l'outil ", f, ": ">> \o e

NO_FINAL_ANSWER(f) ==
    <<"Échec de l'obtention de la réponse finale après l'exécution de l'outil ", f, ".">>

\* what lines 347-441 make of the first reply when they return at once:
\* every exception on this path reaches the handler of line 439
first_result(n, reply, conversation) ==
    IF reply.raises THEN fallback_response(n, Some(reply.exc))
    ELSE IF ~reply.json_ok THEN fallback_response(n, Some(JSON_ERROR))
    ELSE IF reply.status # "200" THEN fallback_response(n, Some(http_error_msg(reply)))
    ELSE IF is_tool_call(reply)
         THEN LET fc == reply.candidates[1].functionCall
              IN  IF ~fc.has_name THEN fallback_response(n, Some(<<"'name'">>))
                  ELSE IF ~fc.has_args THEN fallback_response(n, Some(<<"'args'">>))
                  ELSE fallback_response(n, Some(UNKNOWN_TOOL(fc.name)))
    ELSE IF is_text(reply)
         THEN success_response(n, generated_text(reply).v, conversation)
    ELSE fallback_response(n, Some(blocked_msg(reply)))

\* mutant of runs_tool: line 363 does not consult AVAILABLE_TOOLS
runs_tool_unregistered(reply) ==
    /\ ~reply.raises /\ reply.json_ok /\ reply.status = "200"
    /\ is_tool_call(reply)
    /\ LET fc == reply.candidates[1].functionCall
       IN  fc.has_name /\ fc.has_args

\* line 363 is reached with a name of AVAILABLE_TOOLS
runs_tool(reply) ==
    /\ ~reply.raises /\ reply.json_ok /\ reply.status = "200"
    /\ is_tool_call(reply)
    /\ LET fc == reply.candidates[1].functionCall
       IN  fc.has_name /\ fc.has_args /\ fc.name \in AVAILABLE_TOOLS

\* mutant of FirstCompletion: a candidate with text is answered with its text,
\* whether or not it asks for a tool
FirstCompletion_text_first(reply) ==
    /\ pc = "post1"
    /\ posted' = Append(posted, conversation_history)
    /\ trace' = Append(trace, "post")
    /\ first_reply' = reply
    /\ UNCHANGED <<worker, flask, store, request, second_reply, tool_outcome>>
    /\ IF ~reply.raises /\ reply.json_ok /\ reply.status = "200" /\ is_text(reply)
       THEN /\ Returns(success_response(self_name, generated_text(reply).v,
                                        conversation_history))
            /\ UNCHANGED function_call
       ELSE IF runs_tool(reply)
       THEN /\ function_call' = reply.candidates[1].functionCall
            /\ pc' = "tool"
            /\ UNCHANGED <<gen_result, chat_response>>
       ELSE /\ Returns(first_result(self_name, reply, conversation_history))
            /\ UNCHANGED function_call

\* mutant of FirstCompletion: a completion call that raised is posted again
FirstCompletion_retry(reply) ==
    /\ pc = "post1"
    /\ posted' = Append(posted, conversation_history)
    /\ trace' = Append(trace, "post")
    /\ first_reply' = reply
    /\ UNCHANGED <<worker, flask, store, request, second_reply, tool_outcome>>
    /\ IF reply.raises
       THEN UNCHANGED <<pc, function_call, gen_result, chat_response>>
       ELSE IF runs_tool(reply)
       THEN /\ function_call' = reply.candidates[1].functionCall
            /\ pc' = "tool"
            /\ UNCHANGED <<gen_result, chat_response>>
       ELSE /\ Returns(first_result(self_name, reply, conversation_history))
            /\ UNCHANGED function_call

\* lines 345-365 and 411-441: the first requests.post and what follows it, up
\* to the call of the tool function
FirstCompletion(reply) ==
    /\ pc = "post1"
    /\ posted' = Append(posted, conversation_history)
    /\ trace' = Append(trace, "post")
    /\ first_reply' = reply
    /\ UNCHANGED <<worker, flask, store, request, second_reply, tool_outcome>>
    /\ IF runs_tool(reply)
       THEN /\ function_call' = reply.candidates[1].functionCall
            /\ pc' = "tool"
            /\ UNCHANGED <<gen_result, chat_response>>
       ELSE /\ Returns(first_result(self_name, reply, conversation_history))
            /\ UNCHANGED function_call

\* mutant of tool_turns: the functionResponse turn is built without the result
tool_turns_no_result(fc, function_result) ==
    << Turn("model", <<Part("functionCall", <<>>, fc.name, fc.args, <<>>)>>),
       Turn("function", <<Part("functionResponse", <<>>, fc.name, {}, <<>>)>>) >>

\* the turns of lines 372-379
tool_turns(fc, function_result) ==
    << Turn("model", <<Part("functionCall", <<>>, fc.name, fc.args, <<>>)>>),
       Turn("function", <<Part("functionResponse", <<>>, fc.name, {}, function_result)>>) >>

\* the call reaches the body of schedule_email_alert, the one tool that sends
\* mail and writes to the database
consults_surroundings(fc) == fc.name = "schedule_email_alert" /\ Binds(fc.name, fc.args)

\* lines 367-381 and 407-409: tool_function(**args), then the two turns
ToolExecution(env) ==
    /\ pc = "tool"
    /\ env = NoSurroundings <=> ~consults_surroundings(function_call)
    /\ LET out == tool_function(function_call.name, function_call.args, env)
       IN  /\ tool_outcome' = [out EXCEPT !.env = env]
           /\ trace' = Append(trace, "tool")
           /\ emails_sent' = emails_sent + (IF out.sent THEN 1 ELSE 0)
           /\ scheduled_tasks' =
                  IF out.inserted
                  THEN Append(scheduled_tasks,
                              new_task(Len(scheduled_tasks) + 1, function_call.args))
                  ELSE scheduled_tasks
           /\ IF out.raised
              THEN /\ Returns(fallback_response(
                                  self_name, Some(TOOL_ERROR(function_call.name, out.result))))
                   /\ UNCHANGED conversation_history
              ELSE /\ conversation_history' =
                          conversation_history \o tool_turns(function_call, out.result)
                   /\ pc' = "post2"
                   /\ UNCHANGED <<gen_result, chat_response>>
    /\ UNCHANGED <<worker, flask, env_key, db_state, now, TOOLS_AVAILABLE, agent_name,
                   self_name, message, history, function_call, posted, first_reply,
                   second_reply>>

\* mutant of second_result: a second reply without text is retried as a
\* success with whatever parts[0] holds
second_result_any_text(n, f, reply, conversation) ==
    IF reply.raises THEN fallback_response(n, Some(TOOL_ERROR(f, reply.exc)))
    ELSE IF reply.status = "200" /\ ~reply.json_ok
         THEN fallback_response(n, Some(TOOL_ERROR(f, JSON_ERROR)))
    ELSE IF reply.status = "200" /\ generated_text(reply).has
         THEN success_response(n, generated_text(reply).v, conversation)
    ELSE fallback_response(n, Some(NO_FINAL_ANSWER(f)))

\* what lines 386-409 make of the second reply: an exception here is handled
\* at line 407, inside the tool's try
second_result(n, f, reply, conversation) ==
    IF reply.raises THEN fallback_response(n, Some(TOOL_ERROR(f, reply.exc)))
    ELSE IF reply.status = "200" /\ ~reply.json_ok
         THEN fallback_response(n, Some(TOOL_ERROR(f, JSON_ERROR)))
    ELSE IF reply.status = "200" /\ is_text(reply)
         THEN success_response(n, generated_text(reply).v, conversation)
    ELSE fallback_response(n, Some(NO_FINAL_ANSWER(f)))

\* lines 384-405: the second requests.post and what follows it
SecondCompletion(reply) ==
    /\ pc = "post2"
    /\ posted' = Append(posted, conversation_history)
    /\ trace' = Append(trace, "post")
    /\ second_reply' = reply
    /\ Returns(second_result(self_name, function_call.name, reply, conversation_history))
    /\ UNCHANGED <<worker, flask, store, request, function_call, first_reply, tool_outcome>>

\* the server takes the next request: the locals of the last one are gone
NextRequest ==
    /\ pc = "done"
    /\ pc' = "idle"
    /\ agent_name' = ""
    /\ self_name' = ""
    /\ message' = <<>>
    /\ history' = History(TRUE, <<>>)
    /\ conversation_history' = <<>>
    /\ function_call' = NoFunctionCall
    /\ posted' = <<>>
    /\ trace' = <<>>
    /\ first_reply' = NoReply
    /\ second_reply' = NoReply
    /\ tool_outcome' = NoOutcome
    /\ gen_result' = NoResult
    /\ chat_response' = NoChatResponse
    /\ UNCHANGED <<worker, flask, store>>

Next ==
    \/ \E body \in Bodies : chat(body)
    \/ \E reply \in Replies : FirstCompletion(reply)
    \/ \E env \in Surroundings \cup {NoSurroundings} : ToolExecution(env)
    \/ \E reply \in Replies : SecondCompletion(reply)
    \/ NextRequest

Spec == Init /\ [][Next]_vars

\* --------------------------------------------- requests served together
\* Flask serves requests in threads: each call of generate_response has its
\* own locals; the agents, the registry and the default argument are shared.
ThreadAgents == {"Alex", "Kai"}

ThreadMessages == {<<"hello">>}

ThreadHistories ==
    { <<>>, <<Entry("turn", "user", <<TextPart(<<"q">>)>>)>>,
      <<Entry("turn", "user", <<TextPart(<<"q">>)>>),
        Entry("turn", "model", <<TextPart(<<"a">>)>>)>> }

ThreadReplies ==
    { Reply(TRUE, <<"Read timed out.">>, "", FALSE, None, <<>>, None),
      TextReply(<<SP, "bonjour", SP>>),
      ToolCallReply("schedule_email_alert", EmailArgs("2030-01-01 10:00")),
      ToolCallReply("find_linkedin_contact", {<<"name", "Bob">>}) }

RequestsInit ==
    /\ now = 0
    /\ TOOLS_AVAILABLE = TRUE
    /\ env_key = Some(<<"env-key">>)
    /\ db_state = CHOOSE d \in DbStates : TRUE
    /\ waveai_db = <<>>
    /\ WorkerIdle
    /\ WebIdle

\* mutant of thread_generate_response: the current message is appended to
\* the history list the call was given
thread_generate_response_appends(r, n, msg, passed, h) ==
    /\ threads[r].pc = "idle"
    /\ ~not_api_key(get_api_key)
    /\ passed \/ h = <<>>
    /\ LET hist == IF passed THEN h ELSE default_history
       IN  /\ threads' =
                  [threads EXCEPT ![r] =
                      [NoThread EXCEPT
                          !.pc = "post1", !.n = n, !.message = msg, !.passed = passed,
                          !.history = h,
                          !.conversation_history = initial_conversation(n, msg, hist)]]
           /\ default_history' =
                  IF passed THEN default_history
                  ELSE Append(default_history, Turn("user", <<TextPart(msg)>>))
    /\ UNCHANGED <<store, web, worker>>

\* generate_response(message, history) or generate_response(message) of agent
\* n in thread r, up to the first requests.post (lines 287-343): history is
\* read, never written
thread_generate_response(r, n, msg, passed, h) ==
    /\ threads[r].pc = "idle"
    /\ ~not_api_key(get_api_key)
    /\ passed \/ h = <<>>
    /\ LET hist == IF passed THEN h ELSE default_history
       IN  threads' =
               [threads EXCEPT ![r] =
                   [NoThread EXCEPT
                       !.pc = "post1", !.n = n, !.message = msg, !.passed = passed,
                       !.history = h,
                       !.conversation_history = initial_conversation(n, msg, hist)]]
    /\ UNCHANGED <<store, web, worker, default_history>>

\* lines 345-365 in thread r
thread_first_completion(r, reply) ==
    /\ threads[r].pc = "post1"
    /\ threads' =
           [threads EXCEPT
               ![r].posted = Append(@, threads[r].conversation_history),
               ![r].function_call =
                   IF runs_tool(reply) THEN reply.candidates[1].functionCall ELSE @,
               ![r].pc = IF runs_tool(reply) THEN "tool" ELSE "done"]
    /\ UNCHANGED <<store, web, worker, default_history>>

\* lines 367-381 in thread r
thread_tool(r, env) ==
    /\ threads[r].pc = "tool"
    /\ env = NoSurroundings <=> ~consults_surroundings(threads[r].function_call)
    /\ LET fc == threads[r].function_call
           out == tool_function(fc.name, fc.args, env)
       IN  /\ emails_sent' = emails_sent + (IF out.sent THEN 1 ELSE 0)
           /\ scheduled_tasks' =
                  IF out.inserted
                  THEN Append(scheduled_tasks, new_task(Len(scheduled_tasks) + 1, fc.args))
                  ELSE scheduled_tasks
           /\ threads' =
                  IF out.raised
                  THEN [threads EXCEPT ![r].pc = "done"]
                  ELSE [threads EXCEPT
                           ![r].pc = "post2",
                           ![r].function_result = out.result,
                           ![r].conversation_history = @ \o tool_turns(fc, out.result)]
    /\ UNCHANGED <<env_key, db_state, now, TOOLS_AVAILABLE, web, worker, default_history>>

\* lines 384-405 in thread r
thread_second_completion(r, reply) ==
    /\ threads[r].pc = "post2"
    /\ threads' =
           [threads EXCEPT
               ![r].posted = Append(@, threads[r].conversation_history),
               ![r].pc = "done"]
    /\ UNCHANGED <<store, web, worker, default_history>>

RequestsNext ==
    \/ \E r \in RequestIds, n \in ThreadAgents, msg \in ThreadMessages,
          passed \in BOOLEAN, h \in ThreadHistories :
           thread_generate_response(r, n, msg, passed, h)
    \/ \E r \in RequestIds, reply \in ThreadReplies : thread_first_completion(r, reply)
    \/ \E r \in RequestIds, env \in Surroundings \cup {NoSurroundings} : thread_tool(r, env)
    \/ \E r \in RequestIds, reply \in ThreadReplies : thread_second_completion(r, reply)

RequestsSpec == RequestsInit /\ [][RequestsNext]_vars

\* ------------------------------------------------------------- worker.py
Statuses == {"pending", "sent", "failed"}

\* the character between date and time in a stored scheduled_date: sqlite
\* keeps the text its writer gave it, "2026-01-01 00:10:00" or
\* "2026-01-01T00:10:00"
Separators == {" ", "T"}

TimePoints == {0, MaxTime \div 2, MaxTime}

Row(status, scheduled_date, sep) ==
    [status |-> status, scheduled_date |-> scheduled_date, sep |-> sep]

Rows == {Row(st, d, sep) : st \in Statuses, d \in {0, MaxTime}, sep \in Separators}

\* scheduled_date <= datetime.now().isoformat() (lines 28-29), a comparison of
\* text: the dates first, then the separator against the "T" of isoformat,
\* then the times
le_isoformat(row, t) ==
    LET rd == row.scheduled_date \div MINUTES_PER_DAY
        rt == row.scheduled_date % MINUTES_PER_DAY
        td == t \div MINUTES_PER_DAY
        tt == t % MINUTES_PER_DAY
    IN  \/ rd < td
        \/ rd = td /\ row.sep = " "
        \/ rd = td /\ row.sep = "T" /\ rt <= tt

\* mutant of selected: the query leaves out the rows with status sent only
selected_not_sent(row, t) == row.status # "sent" /\ le_isoformat(row, t)

\* mutant of selected: the query does not look at the status
selected_any_status(row, t) == le_isoformat(row, t)

\* the WHERE clause of line 29
selected(row, t) == row.status = "pending" /\ le_isoformat(row, t)

\* cursor.fetchall() of line 30: the ids of the selected rows, in rowid order
fetchall(t) ==
    SelectSeq([i \in 1..Len(waveai_db) |-> i], LAMBDA i : selected(waveai_db[i], t))

\* what the calls of a pass may meet
QueryOutcomes == {"ok", "raises"}

ServiceOutcomes == {"service", "none", "raises"}

SendOutcomes == {"ok", "transient", "permanent"}

\* the UPDATE and commit statements of one iteration, in the order they are
\* executed: all succeed, the first fails, or all fail
WriteOutcomes == {"ok", "first_fails", "all_fail"}

WorkerInit ==
    /\ now = 0
    /\ TOOLS_AVAILABLE = TRUE
    /\ env_key = CHOOSE k \in EnvKeys : TRUE
    /\ db_state = CHOOSE d \in DbStates : TRUE
    /\ waveai_db \in [1..MaxTasks -> Rows]
    /\ WorkerIdle
    /\ WebIdle

\* mutant of process_scheduled_tasks: without a mail service the fetched
\* tasks are marked failed
process_scheduled_tasks_marks_failed(w, query, service) ==
    /\ wpc[w] = "idle"
    /\ passes < MaxPasses
    /\ passes' = passes + 1
    /\ LET tasks == IF query = "raises" THEN <<>> ELSE fetchall(now)
           asked == IF tasks = <<>> THEN NoCycle ELSE service
       IN  /\ cycle' = asked
           /\ IF asked # "service"
              THEN /\ waveai_db' = [i \in DOMAIN waveai_db |->
                                       IF \E k \in DOMAIN tasks : tasks[k] = i
                                       THEN [waveai_db[i] EXCEPT !.status = "failed"]
                                       ELSE waveai_db[i]]
                   /\ UNCHANGED <<wpc, wtasks>>
              ELSE /\ wpc' = [wpc EXCEPT ![w] = "loop"]
                   /\ wtasks' = [wtasks EXCEPT ![w] = tasks]
                   /\ UNCHANGED waveai_db
    /\ UNCHANGED <<store, web, flask, wsent, last>>

\* process_scheduled_tasks() up to the loop (lines 18-41, 66-67), called by
\* worker process w; the mail service is asked for (line 37) only when the
\* query returned tasks
process_scheduled_tasks(w, query, service) ==
    /\ wpc[w] = "idle"
    /\ passes < MaxPasses
    /\ passes' = passes + 1
    /\ LET tasks == IF query = "raises" THEN <<>> ELSE fetchall(now)
           asked == IF tasks = <<>> THEN NoCycle ELSE service
       IN  /\ cycle' = asked
           /\ IF asked # "service"
              THEN UNCHANGED <<wpc, wtasks>>
              ELSE /\ wpc' = [wpc EXCEPT ![w] = "loop"]
                   /\ wtasks' = [wtasks EXCEPT ![w] = tasks]
    /\ UNCHANGED <<store, web, flask, waveai_db, wsent, last>>

\* mutant of send_task: an exception of the send leaves the loop
send_task_stops(w, send, write) ==
    /\ wpc[w] = "loop"
    /\ LET task_id == Head(wtasks[w])
           sent == send = "ok"
           escapes == write = "all_fail" \/ (~sent /\ write = "first_fails")
           status == IF escapes THEN waveai_db[task_id].status
                     ELSE IF sent /\ write = "ok" THEN "sent"
                     ELSE "failed"
       IN  /\ wsent' = [wsent EXCEPT ![task_id] = @ + (IF sent THEN 1 ELSE 0)]
           /\ waveai_db' = [waveai_db EXCEPT ![task_id].status = status]
           /\ last' = [pass |-> passes, task |-> task_id, send |-> send,
                       write |-> write,
                       columns |-> IF escapes THEN {} ELSE {"status"}]
           /\ IF escapes \/ ~sent \/ Tail(wtasks[w]) = <<>>
              THEN /\ wpc' = [wpc EXCEPT ![w] = "idle"]
                   /\ wtasks' = [wtasks EXCEPT ![w] = <<>>]
              ELSE /\ wtasks' = [wtasks EXCEPT ![w] = Tail(wtasks[w])]
                   /\ UNCHANGED wpc
    /\ UNCHANGED <<store, web, flask, passes, cycle>>

\* mutant of send_task: the loop does not move on to the next task
send_task_again(w, send, write) ==
    /\ wpc[w] = "loop"
    /\ LET task_id == Head(wtasks[w])
           sent == send = "ok"
           status == IF sent /\ write = "ok" THEN "sent" ELSE "failed"
       IN  /\ wsent' = [wsent EXCEPT ![task_id] = @ + (IF sent THEN 1 ELSE 0)]
           /\ waveai_db' = [waveai_db EXCEPT ![task_id].status = status]
           /\ last' = [pass |-> passes, task |-> task_id, send |-> send,
                       write |-> write, columns |-> {"status"}]
    /\ UNCHANGED <<store, web, flask, passes, wpc, wtasks, cycle>>

\* one iteration of the loop of lines 43-61, and lines 63-67 after the last
send_task(w, send, write) ==
    /\ wpc[w] = "loop"
    /\ LET task_id == Head(wtasks[w])
           sent == send = "ok"
           escapes == write = "all_fail" \/ (~sent /\ write = "first_fails")
           status == IF escapes THEN waveai_db[task_id].status
                     ELSE IF sent /\ write = "ok" THEN "sent"
                     ELSE "failed"
       IN  /\ wsent' = [wsent EXCEPT ![task_id] = @ + (IF sent THEN 1 ELSE 0)]
           /\ waveai_db' = [waveai_db EXCEPT ![task_id].status = status]
           /\ last' = [pass |-> passes, task |-> task_id, send |-> send,
                       write |-> write,
                       columns |-> IF escapes THEN {} ELSE {"status"}]
           /\ IF escapes \/ Tail(wtasks[w]) = <<>>
              THEN /\ wpc' = [wpc EXCEPT ![w] = "idle"]
                   /\ wtasks' = [wtasks EXCEPT ![w] = <<>>]
              ELSE /\ wtasks' = [wtasks EXCEPT ![w] = Tail(wtasks[w])]
                   /\ UNCHANGED wpc
    /\ UNCHANGED <<store, web, flask, passes, cycle>>

\* time passes
Tick ==
    /\ \E t \in TimePoints : t > now /\ now' = t
    /\ UNCHANGED <<env_key, db_state, emails_sent, scheduled_tasks, TOOLS_AVAILABLE,
                   web, worker, flask>>

WorkerNext ==
    \/ \E query \in QueryOutcomes, service \in ServiceOutcomes :
           process_scheduled_tasks(1, query, service)
    \/ \E send \in SendOutcomes, write \in WriteOutcomes : send_task(1, send, write)
    \/ Tick

WorkerSpec == WorkerInit /\ [][WorkerNext]_vars

\* a worker process that is in its loop goes on
WorkerFairSpec ==
    /\ WorkerSpec
    /\ WF_vars(\E send \in SendOutcomes, write \in WriteOutcomes : send_task(1, send, write))

\* two worker processes over the same waveai.db: the service that starts the
\* worker may start it again while an earlier run is still in its loop
ConcurrentNext ==
    \/ \E w \in Workers, query \in QueryOutcomes, service \in ServiceOutcomes :
           process_scheduled_tasks(w, query, service)
    \/ \E w \in Workers, send \in SendOutcomes, write \in WriteOutcomes :
           send_task(w, send, write)
    \/ Tick

ConcurrentSpec == WorkerInit /\ [][ConcurrentNext]_vars

\* the names src/tools.py binds at module level
tools_names ==
    { "get_db_connection", "load_gmail_credentials", "create_message_base64",
      "schedule_email_alert", "send_email_immediate", "get_tool_specs",
      "AVAILABLE_TOOLS" }

\* from tools import get_gmail_service, create_message (worker.py line 9)
worker_imports == {"get_gmail_service", "create_message"}

imports_resolve == worker_imports \subseteq tools_names

\* python worker.py, started by the worker service: the import of line 9,
\* then process_scheduled_tasks() (line 71); an ImportError ends the process
\* before the call
worker_main(w, query, service) ==
    IF imports_resolve
    THEN process_scheduled_tasks(w, query, service)
    ELSE /\ wpc[w] = "idle"
         /\ wpc' = [wpc EXCEPT ![w] = "exited"]
         /\ UNCHANGED <<store, web, flask, waveai_db, passes, wtasks, wsent, last, cycle>>

\* the worker service starts a process that has exited again (lines 69-71)
worker_restart(w) ==
    /\ wpc[w] = "exited"
    /\ wpc' = [wpc EXCEPT ![w] = "idle"]
    /\ UNCHANGED <<store, web, flask, waveai_db, passes, wtasks, wsent, last, cycle>>

\* the worker as src/ has it: the loop of line 43 is never entered, because
\* no process gets past line 9
ProcessNext ==
    \/ \E query \in QueryOutcomes, service \in ServiceOutcomes :
           worker_main(1, query, service)
    \/ worker_restart(1)
    \/ Tick

\* the worker service starts the worker again and again
ProcessSpec ==
    /\ WorkerInit
    /\ [][ProcessNext]_vars
    /\ WF_vars(\E query \in QueryOutcomes, service \in ServiceOutcomes :
                   worker_main(1, query, service))
    /\ WF_vars(worker_restart(1))

\* =================================================================== claims
Done == pc = "done"

Returned == Done /\ gen_result.status = "returned"

result == gen_result.value

\* the first requests.post returned a parsed 200 reply
FirstParsed == ~first_reply.raises /\ first_reply.status = "200" /\ first_reply.json_ok

SecondParsed == ~second_reply.raises /\ second_reply.status = "200" /\ second_reply.json_ok

\* the first completion returned a tool-call request
FirstIsToolCall == FirstParsed /\ is_tool_call(first_reply)

first_fc == first_reply.candidates[1].functionCall

\* the requested call names a registered tool, carries arguments and binds
Runnable(fc) ==
    /\ fc.has_name /\ fc.has_args
    /\ fc.name \in AVAILABLE_TOOLS
    /\ Binds(fc.name, fc.args)

\* the first completion returned text and no tool call
FirstIsText == FirstParsed /\ ~is_tool_call(first_reply) /\ is_text(first_reply)

\* the reason of a fallback response carries t
Carries(t) == ~result.success /\ Contains(result.response, t)

ToolRound == <<"post", "tool", "post">>

\* C1 as stated: every request whose first completion returns a tool-call
\* request ends after exactly two upstream calls with exactly one tool call
\* between them.
C1_Original == Done /\ FirstIsToolCall => trace = ToolRound

\* C1 amended: when the first completion returns a tool-call request that names
\* a registered tool with arguments its function accepts, exactly two upstream
\* calls are made and the tool function is called exactly once, between them;
\* for every other tool-call request one upstream call is made and no second,
\* with the tool function called once (the arguments do not bind) or not at all.
C1_ToolRound ==
    Done /\ FirstIsToolCall =>
        IF Runnable(first_fc) THEN trace = ToolRound /\ Len(posted) = 2
        ELSE IF first_fc.has_name /\ first_fc.has_args /\ first_fc.name \in AVAILABLE_TOOLS
        THEN trace = <<"post", "tool">>
        ELSE trace = <<"post">>

C1_Witness ==
    /\ Done /\ FirstIsToolCall /\ Runnable(first_fc)
    /\ trace = ToolRound /\ result.success

CredentialAbsent ==
    /\ ~env_key.has \/ env_key.v = <<>>
    /\ db_state.state # "row" \/ db_state.api_key = <<>>

\* C2: with no credential (no environment value and no usable stored key)
\* generate_response returns a fallback response with success false, and makes
\* no upstream call and no tool call, whatever the message and the history.
C2_NoCredential ==
    Done /\ self_name # "" /\ CredentialAbsent =>
        /\ gen_result.status = "returned"
        /\ ~result.success
        /\ result.provider = PROVIDER_DEMO
        /\ posted = <<>> /\ trace = <<>> /\ ~tool_outcome.called

C2_Witness ==
    /\ Done /\ self_name # "" /\ CredentialAbsent
    /\ history_raises(history)
    /\ gen_result.status = "returned" /\ ~result.success

\* C3: when the first completion returns text and no tool call, exactly one
\* upstream call is made, no tool is called and the response is a success
\* response whose text is that text (stripped, as line 421 returns it).
C3_TextRound ==
    Done /\ FirstIsText =>
        /\ gen_result.status = "returned"
        /\ trace = <<"post">> /\ Len(posted) = 1
        /\ ~tool_outcome.called
        /\ result.success
        /\ result.agent = self_name
        /\ result.response = strip(generated_text(first_reply).v)

C3_Witness ==
    /\ Done /\ FirstIsText
    /\ generated_text(first_reply).v = <<SP, "bonjour", SP>>
    /\ result.success /\ result.response = <<"bonjour">>

IsPrefix(s, t) == Len(s) <= Len(t) /\ SubSeq(t, 1, Len(s)) = s

\* C4: the first completion call, the tool execution and the second completion
\* call happen in that order; a second call is made only after the tool has
\* returned, and the conversation it sends holds the tool's result.
C4_Sequential ==
    /\ IsPrefix(trace, ToolRound)
    /\ Len(posted) = 2 =>
          /\ tool_outcome.called /\ ~tool_outcome.raised
          /\ trace = ToolRound
          /\ \E i \in 1..Len(posted[2]) :
                /\ posted[2][i].role = "function"
                /\ posted[2][i].parts[1].type = "functionResponse"
                /\ posted[2][i].parts[1].result = tool_outcome.result

C4_Witness ==
    /\ Len(posted) = 2
    /\ tool_outcome.result = DB_ERROR
    /\ posted[2][Len(posted[2])].parts[1].result = DB_ERROR

SecondIsText == SecondParsed /\ is_text(second_reply)

ToolCalls == Cardinality({i \in 1..Len(trace) : trace[i] = "tool"})

\* C5: there is no third round: a second reply that is not text (an exception,
\* an HTTP error, an empty or blocked reply, a tool-call request without text)
\* ends the request with a fallback response, and no request makes more than
\* two upstream calls or more than one tool call.
C5_NoThirdRound ==
    /\ Len(posted) <= 2
    /\ ToolCalls <= 1
    /\ Done /\ Len(posted) = 2 /\ ~SecondIsText =>
          /\ gen_result.status = "returned"
          /\ ~result.success
          /\ result.provider = PROVIDER_DEMO

C5_Witness ==
    /\ Done /\ Len(posted) = 2
    /\ SecondParsed /\ is_tool_call(second_reply) /\ ~is_text(second_reply)
    /\ ~result.success

FirstIsProviderError ==
    Len(posted) >= 1 /\ ~first_reply.raises /\ first_reply.status # "200"

FirstIsBlocked == FirstParsed /\ ~is_tool_call(first_reply) /\ ~is_text(first_reply)

C7_ToolFailure ==
    Done /\ FirstIsToolCall /\ first_fc.has_name /\ first_fc.has_args =>
        /\ first_fc.name \notin AVAILABLE_TOOLS =>
              /\ Carries(UNKNOWN_TOOL(first_fc.name))
              /\ trace = <<"post">> /\ ~tool_outcome.called
        /\ first_fc.name \in AVAILABLE_TOOLS
              /\ (tool_outcome.raised \/ ~Binds(first_fc.name, first_fc.args)) =>
              /\ tool_outcome.raised
              /\ Carries(TOOL_ERROR(first_fc.name, tool_outcome.result))
              /\ trace = <<"post", "tool">> /\ Len(posted) = 1

C7_Witness ==
    /\ Done /\ FirstIsToolCall /\ first_fc.name = "schedule_email_alert"
    /\ tool_outcome.raised /\ ~result.success

C7_WitnessUnknown ==
    /\ Done /\ FirstIsToolCall /\ first_fc.name = "send_sms"
    /\ Carries(UNKNOWN_TOOL("send_sms"))

\* C8 as stated: after a tool round a response has success true only if the
\* scheduling tool's action succeeded (the e-mail was sent or a pending row was
\* inserted).
C8_SuccessMeansToolActed ==
    Returned /\ result.success /\ tool_outcome.called
             /\ function_call.name = "schedule_email_alert" =>
        tool_outcome.sent \/ tool_outcome.inserted

final_reply == IF Len(posted) = 2 THEN second_reply ELSE first_reply

AgentNames == {agents(k) : k \in AgentKeys}

\* C9: a run of generate_response that returns produces one response: a success
\* response (success true, the stripped text of the final completion) or a
\* fallback response (success false, the persona's canned text, then the
\* reason); both name the answering agent, and a fallback response is never
\* marked success.
C9_OneResponse ==
    Returned =>
        /\ result.agent = self_name /\ self_name \in AgentNames
        /\ result.success =>
              /\ Len(posted) >= 1 /\ is_text(final_reply)
              /\ result.response = strip(generated_text(final_reply).v)
              /\ result.provider = PROVIDER_GEMINI
        /\ ~result.success =>
              /\ IsPrefix(fallback_responses(self_name), result.response)
              /\ result.provider = PROVIDER_DEMO
        /\ IsPrefix(fallback_responses(self_name), result.response) => ~result.success
        /\ chat_response.status = "json" /\ chat_response.api_working = result.success

C9_Witness ==
    /\ Returned /\ ~result.success /\ Len(posted) = 2
    /\ IsPrefix(fallback_responses("Alex"), result.response)

\* C10 as stated: whatever the credential lookup, the completion calls and the
\* tool produce, generate_response returns instead of raising, and for every
\* request body, missing and malformed ones included, chat() returns a response
\* object with a boolean success field instead of raising.
C10_NothingPropagates ==
    Done =>
        /\ ~history_raises(history) => gen_result.status # "raised"
        /\ chat_response.status = "json"

Count(seq, x) == Cardinality({i \in 1..Len(seq) : seq[i] = x})

\* C11: within one request nothing is retried: the steps taken are a prefix
\* of completion, tool, completion; a first completion call that failed or
\* timed out is the request's only step and a second one that failed its
\* last; the tool runs at most once, with at most one send attempt and at
\* most one ledger insert.
C11_NoRetry ==
    /\ IsPrefix(trace, ToolRound)
    /\ Len(posted) = Count(trace, "post")
    /\ Count(trace, "tool") <= 1
    /\ first_reply.raises => trace = <<"post">>
    /\ second_reply.raises => trace = ToolRound
    /\ tool_outcome.attempts <= 1
    /\ tool_outcome.called <=> Count(trace, "tool") = 1

C11_Witness ==
    /\ Done
    /\ first_reply.raises
    /\ trace = <<"post">>

C11_WitnessSecond ==
    /\ Done
    /\ tool_outcome.called
    /\ second_reply.raises
    /\ trace = ToolRound

\* C12: tool use is gated by the agent's capability: the completion request
\* carries tool specs only when the answering agent's capability set is not
\* empty, and an agent without tool capability never executes a tool.
C12_CapabilityGate ==
    /\ (Len(posted) > 0 /\ payload_tools # {}) => capabilities(self_name) # {}
    /\ tool_outcome.called => capabilities(self_name) # {}

\* the tool ran schedule_email_alert with its four arguments
Scheduling ==
    /\ tool_outcome.called
    /\ function_call.name = "schedule_email_alert"
    /\ Binds(function_call.name, function_call.args)

scheduled_date_str == Get(function_call.args, "scheduled_date_str")

\* ... and the target time is well-formed
SchedulingAt == Scheduling /\ strptime_ok(scheduled_date_str)

target == strptime(scheduled_date_str)

Confirms(r) == Len(r) > 0 /\ r[1] = SCHEDULED_OK(<<>>, 0)[1]

\* C13: a scheduling request with a well-formed target time at or before now
\* plus the grace window attempts a synchronous send; when the send succeeds
\* the result is the immediate-send success string and no row is inserted.
C13_ImmediateSend ==
    (SchedulingAt /\ target <= now + GRACE_MINUTES)
        => /\ tool_outcome.attempts = 1
           /\ tool_outcome.env.gmail = "ok" =>
                  /\ tool_outcome.sent
                  /\ tool_outcome.result = SENT_OK
                  /\ ~tool_outcome.inserted

\* C14: the boundary of the grace window is inclusive: a target time of now
\* plus the window, and one just below it, take the synchronous-send path; one
\* just above it takes the deferred path.
C14_InclusiveBoundary ==
    SchedulingAt
        => /\ target = now + GRACE_MINUTES => tool_outcome.path = "sync"
           /\ target = now + GRACE_MINUTES - 1 => tool_outcome.path = "sync"
           /\ target = now + GRACE_MINUTES + 1 => tool_outcome.path = "deferred"

\* C15: when the synchronous send fails, the tool inserts a pending row for
\* the email and returns a deferred-handling confirmation.
C15_FailedSendIsDeferred ==
    (SchedulingAt /\ target <= now + GRACE_MINUTES /\ tool_outcome.env.gmail # "ok"
         /\ tool_outcome.env.database_ok)
        => /\ tool_outcome.inserted
           /\ \E i \in 1..Len(scheduled_tasks) :
                  scheduled_tasks[i] = new_task(i, function_call.args)
           /\ Confirms(tool_outcome.result)

\* C16: a scheduling request whose target time is beyond the grace window
\* sends no email, inserts exactly one pending row of type email with the given
\* recipient, subject, body and target time, and returns the deferred
\* confirmation, not the immediate-send string.
C16_Deferred ==
    (SchedulingAt /\ target > now + GRACE_MINUTES /\ tool_outcome.env.database_ok)
        => /\ tool_outcome.attempts = 0 /\ ~tool_outcome.sent
           /\ tool_outcome.inserted
           /\ Cardinality({i \in 1..Len(scheduled_tasks) :
                              scheduled_tasks[i] = new_task(i, function_call.args)}) = 1
           /\ Confirms(tool_outcome.result)
           /\ tool_outcome.result # SENT_OK

C18_SentIsFinal ==
    [][\A t \in DOMAIN waveai_db :
           waveai_db[t].status = "sent"
               => waveai_db'[t] = waveai_db[t] /\ wsent'[t] = wsent[t]]_vars

\* a task the first pass sent is not among the tasks of the second pass
C18_Witness ==
    /\ passes = MaxPasses
    /\ last.pass = 1
    /\ wpc[1] = "loop"
    /\ waveai_db[last.task].status = "sent"
    /\ wsent[last.task] = 1
    /\ \A i \in 1..Len(wtasks[1]) : wtasks[1][i] # last.task

\* the last iteration sent its email and wrote its row
SentAndWritten == last.send = "ok" /\ last.write = "ok"

\* C19: round trip between the two processes: when the send of a task a
\* worker pass selected succeeds, the worker sets the task's status to sent and
\* records a completion timestamp with it.
C19_RoundTrip ==
    SentAndWritten
        => /\ waveai_db[last.task].status = "sent"
           /\ last.columns \ {"status"} # {}

\* C20: when the send of a due task fails with a transient failure, the
\* task's status stays pending, so that the next pass selects it again.
C20_TransientStaysPending ==
    (last.send = "transient" /\ last.write = "ok")
        => waveai_db[last.task].status = "pending"

\* C21: when the send of a due pending task fails with a terminal failure the
\* task's status becomes failed, and no later step of the worker attempts the
\* task again or changes its row.
C21_TerminalFailure ==
    /\ [](last.send = "permanent" /\ last.write = "ok"
              => waveai_db[last.task].status = "failed")
    /\ [][\A t \in DOMAIN waveai_db :
              waveai_db[t].status = "failed"
                  => /\ waveai_db'[t] = waveai_db[t]
                     /\ wsent'[t] = wsent[t]
                     /\ last' # last => last'.task # t]_vars

\* a task that failed terminally in the first pass is not among the tasks of
\* the second pass
C21_Witness ==
    /\ passes = MaxPasses
    /\ last.pass = 1
    /\ last.send = "permanent"
    /\ wpc[1] = "loop"
    /\ waveai_db[last.task].status = "failed"
    /\ \A i \in 1..Len(wtasks[1]) : wtasks[1][i] # last.task

\* C22: when two worker passes run interleaved over the same ledger, no
\* task's email is sent more than once.
C22_SentOnce == \A t \in DOMAIN waveai_db : wsent[t] <= 1

\* the steps a ledger may take: no row is deleted, a new row is pending, and a
\* status changes only from pending, to sent or to failed
LedgerStep(old, new) ==
    /\ Len(new) >= Len(old)
    /\ \A t \in DOMAIN new :
           /\ new[t].status \in Statuses
           /\ t \notin DOMAIN old => new[t].status = "pending"
           /\ (t \in DOMAIN old /\ new[t].status # old[t].status)
                  => old[t].status = "pending" /\ new[t].status \in {"sent", "failed"}

\* C23: ledger invariant over any interleaving of scheduling-tool calls and
\* worker passes: every status is pending, sent or failed, rows are never
\* deleted, a row is created as pending, and the only status changes are
\* pending to sent and pending to failed, so that sent and failed are final.
C23_LedgerInvariant ==
    [][LedgerStep(waveai_db, waveai_db') /\ LedgerStep(scheduled_tasks, scheduled_tasks')]_vars

\* the target time of task t has passed and the task is still pending
DuePending(t) ==
    waveai_db[t].status = "pending" /\ waveai_db[t].scheduled_date <= now

\* the worker has attempted task t, or given it another status
Attempted(t) == waveai_db[t].status # "pending" \/ last.task = t

\* C24: at-least-once deferred execution: under repeated invocations of the
\* worker, every pending task whose target time has passed eventually has its
\* send attempted and leaves pending for sent or failed.
C24_AtLeastOnce ==
    \A t \in 1..MaxTasks : DuePending(t) ~> Attempted(t)

NoDuplicates(seq) == \A i, j \in 1..Len(seq) : seq[i] = seq[j] => i = j

\* the tasks of a pass are those fetched at its start, and every iteration
\* takes the first of them away
PassStep ==
    /\ wtasks'[1] # wtasks[1] =>
           \/ wpc[1] = "idle" /\ wtasks'[1] = fetchall(now)
           \/ wpc[1] = "loop" /\ wtasks'[1] \in {Tail(wtasks[1]), <<>>}
    /\ last' # last => (wpc[1] = "loop" /\ wtasks'[1] # wtasks[1])

\* C25: each invocation of the worker terminates: it handles the tasks that
\* were due when it queried the ledger, each at most once, and exits, whatever
\* the outcome of each send and of obtaining the mail service.
C25_Terminates ==
    /\ (wpc[1] = "loop") ~> (wpc[1] = "idle")
    /\ [](NoDuplicates(wtasks[1]) /\ (wpc[1] = "loop" <=> wtasks[1] # <<>>))
    /\ [][PassStep]_vars

\* a pass has handled both of its tasks, one sent and one not, and has exited
C25_Witness ==
    /\ passes = 1
    /\ wpc[1] = "idle"
    /\ last.pass = 1
    /\ last.send # "ok"
    /\ \E t \in DOMAIN waveai_db : t # last.task /\ wsent[t] = 1

\* the environment has a value for the key
EnvSet == env_key.has /\ env_key.v # <<>>

\* C26: get_api_key returns the environment value whenever one is set,
\* whatever the persisted record; otherwise the value of the active persisted
\* record; and None, without raising, when there is neither or the store
\* cannot be read.  Resolution changes no state.
C26_Resolution ==
    /\ [](/\ EnvSet => get_api_key = env_key
          /\ (~EnvSet /\ db_state.state = "row") => get_api_key = Some(db_state.api_key)
          /\ (~EnvSet /\ db_state.state \in {"norow", "error"}) => get_api_key = None)
    /\ [][env_key' = env_key /\ db_state' = db_state]_vars

\* a request went to the provider with the key of the persisted record,
\* another would have with the key of the environment
C26_Witness ==
    /\ pc = "post1"
    /\ ~EnvSet
    /\ get_api_key = Some(<<"db-key">>)

C26_WitnessEnv ==
    /\ pc = "post1"
    /\ db_state.state = "row"
    /\ get_api_key = Some(<<"env-key">>)

C26_WitnessUnreadable ==
    /\ Done
    /\ db_state.state = "error"
    /\ get_api_key = None
    /\ Returned /\ ~result.success

\* the conversation of request r as its own inputs give it
OwnConversation(r) ==
    initial_conversation(threads[r].n, threads[r].message, threads[r].history)

\* C27: requests served at the same time are independent: every conversation
\* sent for a request consists of that request's system prompt, the history it
\* supplied (none when it relies on the default argument), its own message and
\* its own tool turns, whatever the other request does.
C27_Independent ==
    \A r \in RequestIds :
        LET t == threads[r]
        IN  /\ Len(t.posted) <= 2
            /\ Len(t.posted) >= 1 => t.posted[1] = OwnConversation(r)
            /\ Len(t.posted) = 2 =>
                   t.posted[2] = OwnConversation(r)
                                     \o tool_turns(t.function_call, t.function_result)
            /\ t.pc # "idle" =>
                   IsPrefix(OwnConversation(r), t.conversation_history)

\* both requests rely on the default argument and are under way at once, one
\* between its two completion calls, and the other has been sent
C27_Witness ==
    /\ threads[1].pc = "post2" /\ ~threads[1].passed
    /\ threads[2].pc = "tool" /\ ~threads[2].passed
    /\ threads[1].n # threads[2].n
    /\ Len(threads[2].posted) = 1

\* a conversation has been built for the request being served
Built == pc \in {"post1", "tool", "post2"} \/ Len(posted) > 0

\* the caller's turns that have a role and parts
prior == accepted(history.entries)

ToolCallTurn ==
    Turn("model", <<Part("functionCall", <<>>, function_call.name, function_call.args, <<>>)>>)

ToolResultTurn ==
    Turn("function",
         <<Part("functionResponse", <<>>, function_call.name, {}, tool_outcome.result)>>)

\* the system instruction, the caller's turns in their order, the message
Opening ==
    /\ Len(conversation_history) >= Len(prior) + 2
    /\ conversation_history[1] = Turn("user", <<TextPart(system_instruction(self_name))>>)
    /\ SubSeq(conversation_history, 2, Len(prior) + 1) = prior
    /\ conversation_history[Len(prior) + 2] = Turn("user", <<TextPart(message)>>)

SecondIsFirstPlusToolTurns ==
    Len(posted) = 2 => posted[2] = posted[1] \o <<ToolCallTurn, ToolResultTurn>>

\* the claim as the specification has it: the tool-call turn is in the
\* conversation once the tool has been invoked
C28_Original ==
    /\ Built => Opening
    /\ SecondIsFirstPlusToolTurns
    /\ tool_outcome.called =>
           /\ Len(conversation_history) >= Len(prior) + 3
           /\ conversation_history[Len(prior) + 3] = ToolCallTurn

\* C28: the conversation is append-only within a request: the caller's prior
\* turns appear in their order before the current user message; the
\* conversation of the second completion call is that of the first followed by
\* the tool-call turn and the tool-result turn; both turns are appended after
\* the tool has returned, and neither when the tool raised.
C28_AppendOnly ==
    /\ Built => Opening
    /\ SecondIsFirstPlusToolTurns
    /\ (Built /\ ~(tool_outcome.called /\ ~tool_outcome.raised))
           => Len(conversation_history) = Len(prior) + 2
    /\ (tool_outcome.called /\ ~tool_outcome.raised)
           => /\ Len(conversation_history) = Len(prior) + 4
              /\ conversation_history[Len(prior) + 3] = ToolCallTurn
              /\ conversation_history[Len(prior) + 4] = ToolResultTurn

C28_Witness ==
    /\ Len(posted) = 2
    /\ Len(prior) = MaxHistory
    /\ prior[1].role # prior[2].role

\* the tool raised: it was invoked, and no turn was appended
C28_WitnessRaised ==
    /\ tool_outcome.called /\ tool_outcome.raised
    /\ Len(prior) = 1
    /\ Len(conversation_history) = 3

FallbackWith(reason) ==
    fallback_responses(self_name) \o <<" (">> \o reason \o <<")">>

\* C29: the fallback response is a function of the agent name and the captured
\* reason, and the reason names the actual cause: it says that the credential
\* is not configured if and only if the credential was absent, and otherwise it
\* carries the captured error.
C29_ReasonIsCause ==
    (Returned /\ ~result.success /\ self_name # "")
        => /\ CredentialAbsent => result.response = FallbackWith(NOT_CONFIGURED)
           /\ ~CredentialAbsent =>
                  /\ ~Contains(result.response, NOT_CONFIGURED)
                  /\ \E i \in 1..Len(result.response) :
                         result.response[i] = "Erreur API: "

\* C30: a worker pass touches only rows that are pending and due: a task
\* whose target time is later than now, or whose status is sent or failed, is
\* neither sent nor modified.
C30_OnlyDuePending ==
    [][\A t \in DOMAIN waveai_db :
           (waveai_db[t].status # "pending" \/ waveai_db[t].scheduled_date > now)
               => waveai_db'[t] = waveai_db[t] /\ wsent'[t] = wsent[t]]_vars

\* C31: a pass that finds due tasks and cannot obtain the mail service (None
\* returned, or an exception) ends there: no message is sent, no row of
\* scheduled_tasks changes, the worker is not in its loop, and the tasks it
\* had fetched are still pending and are fetched again by a pass that
\* follows
NoService == cycle \in {"none", "raises"}

C31_NoServiceNoChange ==
    [][(passes' # passes /\ NoService')
           => /\ fetchall(now) # <<>>
              /\ waveai_db' = waveai_db
              /\ wsent' = wsent
              /\ last' = last
              /\ wpc'[1] = "idle" /\ wtasks'[1] = <<>>
              /\ \A k \in DOMAIN fetchall(now) :
                     waveai_db'[fetchall(now)[k]].status = "pending"
              /\ fetchall(now)' = fetchall(now)]_vars

\* every task was due and none has been handled
C31_Witness ==
    /\ NoService
    /\ passes > 0
    /\ Len(fetchall(now)) = MaxTasks
    /\ last = NoIteration
    /\ \A t \in DOMAIN waveai_db : waveai_db[t].status = "pending" /\ wsent[t] = 0

\* C32: an iteration of a pass whose send raises and whose UPDATE of line 60
\* succeeds sets the status of its own task to failed and changes nothing
\* else: the other rows and the other columns are as before, no message is
\* counted as sent, and the tasks the pass has not handled yet are all still
\* in its list, the loop going on with the next of them
FailedSend == last.send # "ok" /\ last.write = "ok"

C32_IndependentTasks ==
    [][(last' # last /\ FailedSend')
           => LET t == last'.task
              IN  /\ t = Head(wtasks[1])
                  /\ waveai_db' = [waveai_db EXCEPT ![t].status = "failed"]
                  /\ wsent' = wsent
                  /\ wtasks'[1] = Tail(wtasks[1])
                  /\ wpc'[1] = IF Tail(wtasks[1]) = <<>> THEN "idle" ELSE "loop"]_vars

\* the first task of a pass failed and the second is about to be attempted
C32_Witness ==
    /\ FailedSend
    /\ last.pass = passes
    /\ waveai_db[last.task].status = "failed"
    /\ wpc[1] = "loop"
    /\ wtasks[1] # <<>>
    /\ waveai_db[Head(wtasks[1])].status = "pending"

\* the second task of a pass was sent after the first had failed
C32_WitnessAttempted ==
    /\ last.send = "ok" /\ last.write = "ok"
    /\ last.task = 2
    /\ last.pass = passes
    /\ waveai_db[1].status = "failed" /\ wsent[1] = 0
    /\ waveai_db[2].status = "sent" /\ wsent[2] = 1
    /\ cycle = "service"

\* C33: the updated_history generate_response returns.  With a success it is
\* the conversation of the last completion call: the system-instruction turn,
\* the caller's accepted turns, the current message and, after a tool round,
\* the tool-call turn and the tool-result turn; nothing follows these, so the
\* model's final text is not in it.  With a fallback response it is empty,
\* whatever turns the caller supplied.
SentConversation ==
    <<Turn("user", <<TextPart(system_instruction(self_name))>>)>>
        \o prior
        \o <<Turn("user", <<TextPart(message)>>)>>
        \o (IF Len(posted) = 2 THEN <<ToolCallTurn, ToolResultTurn>> ELSE <<>>)

C33_ReturnedHistory ==
    Returned =>
        IF result.success
        THEN /\ posted # <<>>
             /\ result.updated_history = posted[Len(posted)]
             /\ result.updated_history = SentConversation
             /\ chat_response.history = History(TRUE, SentConversation)
        ELSE /\ result.updated_history = <<>>
             /\ chat_response.history = History(TRUE, <<>>)

\* a success after a tool round, the caller having supplied turns
C33_Witness ==
    /\ Returned /\ result.success
    /\ Len(posted) = 2
    /\ Len(prior) = MaxHistory
    /\ Len(result.updated_history) = MaxHistory + 4

\* a fallback after the first completion call, the caller having supplied turns
C33_WitnessFallback ==
    /\ Returned /\ ~result.success
    /\ Len(posted) = 1
    /\ Len(prior) = MaxHistory

\* a success without a tool round
C33_WitnessDirect ==
    /\ Returned /\ result.success
    /\ Len(posted) = 1
    /\ Len(prior) = 1
    /\ Len(result.updated_history) = 3

\* C34: when candidates[0] of the first reply has both a functionCall and
\* text, the request ends through the tool path: a registered tool is called
\* and the answer is the text of the second completion or a fallback; a name
\* that is not registered, or a tool that raises, ends in a fallback; the
\* text of the first reply is never the answer of a request with one
\* completion call
BothRequested == FirstParsed /\ is_tool_call(first_reply) /\ is_text(first_reply)

C34_ToolCallFirst ==
    (Done /\ BothRequested) =>
        LET fc == first_reply.candidates[1].functionCall
        IN  /\ Returned
            /\ result.success => Len(posted) = 2
            /\ IF fc.has_name /\ fc.has_args /\ fc.name \in AVAILABLE_TOOLS
               THEN /\ trace[2] = "tool"
                    /\ tool_outcome.called
                    /\ IF tool_outcome.raised
                       THEN ~result.success /\ trace = <<"post", "tool">>
                       ELSE /\ trace = <<"post", "tool", "post">>
                            /\ result.success =>
                                   /\ is_text(second_reply)
                                   /\ result.response = strip(generated_text(second_reply).v)
               ELSE ~result.success /\ trace = <<"post">>

\* the tool ran and the second completion gave another text
C34_Witness ==
    /\ Done /\ BothRequested
    /\ result.success
    /\ is_text(second_reply)
    /\ ~is_tool_call(second_reply)
    /\ result.response # strip(generated_text(first_reply).v)

\* the name asked for is not registered
C34_WitnessUnknown ==
    /\ Done /\ BothRequested
    /\ TOOLS_AVAILABLE
    /\ first_reply.candidates[1].functionCall.name \notin AVAILABLE_TOOLS
    /\ ~result.success

\* the tool raised
C34_WitnessFails ==
    /\ Done /\ BothRequested
    /\ tool_outcome.called /\ tool_outcome.raised
    /\ ~result.success

\* C35: schedule_email_alert called with a scheduled_date_str that strptime
\* does not accept for '%Y-%m-%d %H:%M' returns the date-format error string
\* naming what it was given; it does not raise, it attempts no send, sends no
\* e-mail and inserts no row
Malformed == Scheduling /\ ~strptime_ok(scheduled_date_str)

C35_DateFormatError ==
    /\ [](Malformed =>
             /\ ~tool_outcome.raised
             /\ tool_outcome.result = DATE_FORMAT_ERROR(scheduled_date_str)
             /\ tool_outcome.path = "format"
             /\ tool_outcome.attempts = 0
             /\ ~tool_outcome.sent /\ ~tool_outcome.inserted)
    /\ [][Malformed' /\ ~Malformed
              => emails_sent' = emails_sent /\ scheduled_tasks' = scheduled_tasks]_vars

\* a string with a "T" between date and time was refused while mail and
\* database were working
C35_Witness ==
    /\ Malformed
    /\ scheduled_date_str = "2026-01-01T00:06"
    /\ tool_outcome.env = [gmail |-> "ok", database_ok |-> TRUE]
    /\ pc = "post2"

\* a string that is no date was refused
C35_WitnessWord ==
    /\ Malformed
    /\ scheduled_date_str = "demain"
    /\ Returned

\* C36: the routing of chat().  A request whose message is absent, empty or
\* made of white space only is rejected with success false and "Message vide",
\* no agent and no completion call being made.  Any other message is answered
\* by the agent the lower-cased identifier names, by Kai when the identifier
\* is absent or is no key of agents; that agent's generate_response is the one
\* call of the request, and the response carries its name.
Blank(m) == \A i \in DOMAIN m : m[i] = SP

\* message and agent are strings, or absent
WellTyped(m, a) == m.kind # "other" /\ a.kind # "other"

Rejected ==
    /\ chat_response.status = "json"
    /\ ~chat_response.success
    /\ chat_response.message = <<"Message vide">>
    /\ self_name = ""
    /\ gen_result = NoResult
    /\ posted = <<>> /\ trace = <<>>

RoutedTo(n) ==
    /\ self_name = n
    /\ chat_response.message # <<"Message vide">>
    /\ pc = "done" => /\ gen_result.status \in {"returned", "raised"}
                      /\ Returned => result.agent = n /\ chat_response.agent = n

C36_Routing ==
    /\ [][(pc = "idle" /\ pc' # "idle")
              => \A m \in Messages, a \in AgentFields :
                     (chat(Body(TRUE, m, a, history')) /\ WellTyped(m, a))
                         => IF Blank(m.v) THEN Rejected'
                            ELSE IF a.kind = "absent" THEN RoutedTo("Kai")'
                            ELSE IF lower(a.a) \in AgentKeys
                            THEN RoutedTo(agents(lower(a.a)))'
                            ELSE RoutedTo("Kai")']_vars
    /\ [](self_name # ""
              => /\ self_name = IF agent_name \in AgentKeys THEN agents(agent_name)
                                ELSE "Kai"
                 /\ RoutedTo(self_name))
    /\ [][self_name # "" => self_name' \in {self_name, ""}]_vars

\* an identifier that names no agent was answered by Kai, after a tool round
C36_Witness ==
    /\ Returned
    /\ agent_name = "bob"
    /\ self_name = "Kai"
    /\ result.agent = "Kai"
    /\ Len(posted) = 2

\* a message of white space was rejected
C36_WitnessRejected ==
    /\ Done /\ Rejected
    /\ agent_name = "alex"

\* the named agent answered
C36_WitnessNamed ==
    /\ Returned
    /\ agent_name = "lina"
    /\ result.agent = "Lina"

====
